---- MODULE Spec2Model ----
(***************************************************************************)
(* A model of the BiMap container of src/src/bimap/error.ts.               *)
(*                                                                         *)
(* A JavaScript Map is an insertion-ordered table: it is modelled as the   *)
(* sequence of its entries <<key, value>> in iteration order.  Map objects *)
(* live in a heap (maps) and a BiMap holds references to its two tables,   *)
(* as the fields key2value and value2key do in the source.                 *)
(***************************************************************************)
EXTENDS Integers, Sequences, FiniteSets, TLC

\* The key domain K and the value domain V of BiMap<K, V>.
Keys == {"a", "b", "c"}
Values == {"1", "2", "3"}

\* The longest array of pairs handed to setAll, addAll and from, and the
\* longest array of keys or values handed to deleteKeys and deleteValues.
MaxPairs == 3
MaxDelete == 2

\* The most pairs one forEach over a container is followed through.
MaxVisits == 5

\* What Map.prototype.get and getValue/getKey return for an absent entry.
Undefined == "undefined"

\* The program holds at most two containers: bimap and its clone.
BiMapIds == {1, 2}
NoBiMap == [key2value |-> 0, value2key |-> 0]

VARIABLES
    maps,     \* the heap of Map objects: reference -> entries in insertion order
    bimaps,   \* container -> its fields key2value and value2key (references)
    last,     \* the last call: operation, receiver, arguments, result, heap before
    frames    \* the calls in progress that are followed step by step

vars == <<maps, bimaps, last, frames>>

MapRefs == 1..6

----------------------------------------------------------------------------
(* JavaScript Map, as used by the container.                               *)

\* the position of key in the entries of m, 0 when absent
IndexOf(m, key) ==
    IF \E i \in 1..Len(m) : m[i][1] = key
    THEN CHOOSE i \in 1..Len(m) : m[i][1] = key
    ELSE 0

MapHas(m, key) == IndexOf(m, key) # 0

MapGet(m, key) == IF MapHas(m, key) THEN m[IndexOf(m, key)][2] ELSE Undefined

\* Map.prototype.set: an existing key keeps its position, a new one goes last
MapSet(m, key, value) ==
    IF MapHas(m, key)
    THEN [m EXCEPT ![IndexOf(m, key)] = <<key, value>>]
    ELSE Append(m, <<key, value>>)

MapDelete(m, key) == SelectSeq(m, LAMBDA e : e[1] # key)

MapClear(m) == <<>>

MapKeys(m) == [i \in 1..Len(m) |-> m[i][1]]

MapEntries(m) == [i \in 1..Len(m) |-> <<m[i][1], m[i][2]>>]

MapSize(m) == Len(m)

\* new Map(iterable): every entry of the iterable is set, in order
RECURSIVE MapFromAcc(_, _, _)
MapFromAcc(acc, entries, i) ==
    IF i > Len(entries) THEN acc
    ELSE MapFromAcc(MapSet(acc, entries[i][1], entries[i][2]), entries, i + 1)

NewMap(entries) == MapFromAcc(<<>>, entries, 1)

\* an object literal { k: v, ... } with text keys that are not array indices:
\* a repeated property keeps its first position and takes the later value
NewObject(props) == MapFromAcc(<<>>, props, 1)

\* Object.entries(o): the own properties in creation order
ObjectEntries(o) == [i \in 1..Len(o) |-> <<o[i][1], o[i][2]>>]

----------------------------------------------------------------------------
(* The methods of BiMap, as functions of the heap h and the receiver this  *)
(* (the record of its two table references).  A method yields the heap     *)
(* after the call, its return value and the error it throws ("none").      *)

Result(h, ret, err) == [h |-> h, ret |-> ret, err |-> err, at |-> 0]

\* the sources setAll, addAll and from accept
ArraySource(arr) == [kind |-> "array", pairs |-> arr]
MapSource(arr) == [kind |-> "map", pairs |-> NewMap(arr)]
RecordSource(arr) == [kind |-> "record", pairs |-> NewObject(arr)]
BiMapSource(d) == [kind |-> "bimap", pairs |-> d]

size(h, this) == MapSize(h[this.key2value])

hasKey(h, this, key) == MapHas(h[this.key2value], key)

hasValue(h, this, value) == MapHas(h[this.value2key], value)

\* assertHasKey with its test inverted
assertHasKeyInverted(h, this, key) ==
    IF hasKey(h, this, key) THEN Result(h, "throw", "NoSuchKey")
    ELSE Result(h, "undefined", "none")

assertHasKey(h, this, key) ==
    IF ~hasKey(h, this, key) THEN Result(h, "throw", "NoSuchKey")
    ELSE Result(h, "undefined", "none")

assertHasValue(h, this, value) ==
    IF ~hasValue(h, this, value) THEN Result(h, "throw", "NoSuchValue")
    ELSE Result(h, "undefined", "none")

\* getValue that looks the key up in the inverse table
getValueInverse(h, this, key) == MapGet(h[this.value2key], key)

getValue(h, this, key) == MapGet(h[this.key2value], key)

getKey(h, this, value) == MapGet(h[this.value2key], value)

keys(h, this) == MapKeys(h[this.key2value])

values(h, this) == MapKeys(h[this.value2key])

entries(h, this) == MapEntries(h[this.key2value])

\* clear that empties the forward table only
clearForwardOnly(h, this) ==
    Result([h EXCEPT ![this.key2value] = MapClear(@)], "this", "none")

clear(h, this) ==
    LET h1 == [h EXCEPT ![this.key2value] = MapClear(@)]
        h2 == [h1 EXCEPT ![this.value2key] = MapClear(@)]
    IN  Result(h2, "this", "none")

\* deleteKey with its two deletions swapped: the value is looked up after
\* the forward entry is gone, and the inverse entry stays
deleteKeyStale(h, this, key) ==
    IF hasKey(h, this, key)
    THEN LET h1 == [h EXCEPT ![this.key2value] = MapDelete(@, key)]
             h2 == [h1 EXCEPT ![this.value2key] =
                        MapDelete(@, MapGet(h1[this.key2value], key))]
         IN  Result(h2, TRUE, "none")
    ELSE Result(h, FALSE, "none")

deleteKey(h, this, key) ==
    IF hasKey(h, this, key)
    THEN LET h1 == [h EXCEPT ![this.value2key] =
                        MapDelete(@, MapGet(h[this.key2value], key))]
             h2 == [h1 EXCEPT ![this.key2value] = MapDelete(@, key)]
         IN  Result(h2, TRUE, "none")
    ELSE Result(h, FALSE, "none")

\* deleteValue that removes the inverse entry only
deleteValueInverseOnly(h, this, value) ==
    IF hasValue(h, this, value)
    THEN Result([h EXCEPT ![this.value2key] = MapDelete(@, value)], TRUE, "none")
    ELSE Result(h, FALSE, "none")

deleteValue(h, this, value) ==
    IF hasValue(h, this, value)
    THEN LET h1 == [h EXCEPT ![this.key2value] =
                        MapDelete(@, MapGet(h[this.value2key], value))]
             h2 == [h1 EXCEPT ![this.value2key] = MapDelete(@, value)]
         IN  Result(h2, TRUE, "none")
    ELSE Result(h, FALSE, "none")

\* set that does not evict the pair holding the value
setKeepValue(h, this, key, value) ==
    LET h1 == IF hasKey(h, this, key) THEN deleteKey(h, this, key).h ELSE h
        h3 == [h1 EXCEPT ![this.key2value] = MapSet(@, key, value)]
        h4 == [h3 EXCEPT ![this.value2key] = MapSet(@, value, key)]
    IN  Result(h4, "this", "none")

\* set that does not evict the pair holding the key
setKeepKey(h, this, key, value) ==
    LET h2 == IF hasValue(h, this, value) THEN deleteValue(h, this, value).h ELSE h
        h3 == [h2 EXCEPT ![this.key2value] = MapSet(@, key, value)]
        h4 == [h3 EXCEPT ![this.value2key] = MapSet(@, value, key)]
    IN  Result(h4, "this", "none")

\* set that overwrites the forward entry of an existing key where it stands
\* (only the stale inverse entry is deleted) instead of deleting the pair
setInPlace(h, this, key, value) ==
    LET h1 == IF hasKey(h, this, key)
              THEN [h EXCEPT ![this.value2key] =
                        MapDelete(@, MapGet(h[this.key2value], key))]
              ELSE h
        h2 == IF hasValue(h1, this, value) THEN deleteValue(h1, this, value).h ELSE h1
        h3 == [h2 EXCEPT ![this.key2value] = MapSet(@, key, value)]
        h4 == [h3 EXCEPT ![this.value2key] = MapSet(@, value, key)]
    IN  Result(h4, "this", "none")

\* set that returns at once when the pair is already stored
setSkipSame(h, this, key, value) ==
    IF hasKey(h, this, key) /\ getValue(h, this, key) = value
    THEN Result(h, "this", "none")
    ELSE LET h1 == IF hasKey(h, this, key) THEN deleteKey(h, this, key).h ELSE h
             h2 == IF hasValue(h1, this, value) THEN deleteValue(h1, this, value).h ELSE h1
             h3 == [h2 EXCEPT ![this.key2value] = MapSet(@, key, value)]
             h4 == [h3 EXCEPT ![this.value2key] = MapSet(@, value, key)]
         IN  Result(h4, "this", "none")

\* set that evicts the pair of the value only when the key was not present
setElseIf(h, this, key, value) ==
    LET h1 == IF hasKey(h, this, key) THEN deleteKey(h, this, key).h ELSE h
        h2 == IF ~hasKey(h, this, key) /\ hasValue(h1, this, value)
              THEN deleteValue(h1, this, value).h ELSE h1
        h3 == [h2 EXCEPT ![this.key2value] = MapSet(@, key, value)]
        h4 == [h3 EXCEPT ![this.value2key] = MapSet(@, value, key)]
    IN  Result(h4, "this", "none")

set(h, this, key, value) ==
    LET h1 == IF hasKey(h, this, key) THEN deleteKey(h, this, key).h ELSE h
        h2 == IF hasValue(h1, this, value) THEN deleteValue(h1, this, value).h ELSE h1
        h3 == [h2 EXCEPT ![this.key2value] = MapSet(@, key, value)]
        h4 == [h3 EXCEPT ![this.value2key] = MapSet(@, value, key)]
    IN  Result(h4, "this", "none")

\* add that writes the forward table before it checks the value
addWriteFirst(h, this, key, value) ==
    IF hasKey(h, this, key) THEN Result(h, "throw", "KeyConflict")
    ELSE LET h1 == [h EXCEPT ![this.key2value] = MapSet(@, key, value)]
             h2 == [h1 EXCEPT ![this.value2key] = MapSet(@, value, key)]
         IN  IF hasValue(h, this, value) THEN Result(h1, "throw", "ValueConflict")
             ELSE Result(h2, "this", "none")

\* add that checks the value before the key
addValueFirst(h, this, key, value) ==
    IF hasValue(h, this, value) THEN Result(h, "throw", "ValueConflict")
    ELSE IF hasKey(h, this, key) THEN Result(h, "throw", "KeyConflict")
    ELSE LET h1 == [h EXCEPT ![this.key2value] = MapSet(@, key, value)]
             h2 == [h1 EXCEPT ![this.value2key] = MapSet(@, value, key)]
         IN  Result(h2, "this", "none")

add(h, this, key, value) ==
    IF hasKey(h, this, key) THEN Result(h, "throw", "KeyConflict")
    ELSE IF hasValue(h, this, value) THEN Result(h, "throw", "ValueConflict")
    ELSE LET h1 == [h EXCEPT ![this.key2value] = MapSet(@, key, value)]
             h2 == [h1 EXCEPT ![this.value2key] = MapSet(@, value, key)]
         IN  Result(h2, "this", "none")

\* for (let i = 0; i < keys.length; i++) if (this.deleteKey(keys[i])) num++
RECURSIVE DeleteKeysLoop(_, _, _, _, _)
DeleteKeysLoop(h, this, ks, i, num) ==
    IF i > Len(ks) THEN Result(h, num, "none")
    ELSE LET r == deleteKey(h, this, ks[i])
         IN  DeleteKeysLoop(r.h, this, ks, i + 1, IF r.ret THEN num + 1 ELSE num)

\* deleteKeys that counts every element of the array
deleteKeysCountAll(h, this, ks) ==
    [DeleteKeysLoop(h, this, ks, 1, 0) EXCEPT !.ret = Len(ks)]

deleteKeys(h, this, ks) == DeleteKeysLoop(h, this, ks, 1, 0)

RECURSIVE DeleteValuesLoop(_, _, _, _, _)
DeleteValuesLoop(h, this, vs, i, num) ==
    IF i > Len(vs) THEN Result(h, num, "none")
    ELSE LET r == deleteValue(h, this, vs[i])
         IN  DeleteValuesLoop(r.h, this, vs, i + 1, IF r.ret THEN num + 1 ELSE num)

deleteValues(h, this, vs) == DeleteValuesLoop(h, this, vs, 1, 0)

\* the pairs a source yields, in its iteration order; bs are the containers
SourcePairs(h, bs, pairs) ==
    IF pairs.kind = "bimap" THEN entries(h, bs[pairs.pairs])
    ELSE IF pairs.kind = "map" THEN MapEntries(pairs.pairs)
    ELSE IF pairs.kind = "array" THEN pairs.pairs
    ELSE ObjectEntries(pairs.pairs)

\* this.set(key, value) for each pair of the source, in order
RECURSIVE SetAllLoop(_, _, _, _)
SetAllLoop(h, this, arr, i) ==
    IF i > Len(arr) THEN Result(h, "this", "none")
    ELSE SetAllLoop(set(h, this, arr[i][1], arr[i][2]).h, this, arr, i + 1)

\* this.add(key, value) for each pair of the source, in order; a throw of add
\* ends the loop and leaves the call (at: the position of the pair that threw)
RECURSIVE AddAllLoop(_, _, _, _)
AddAllLoop(h, this, arr, i) ==
    IF i > Len(arr) THEN Result(h, "this", "none")
    ELSE LET r == add(h, this, arr[i][1], arr[i][2])
         IN  IF r.err # "none" THEN [r EXCEPT !.at = i]
             ELSE AddAllLoop(r.h, this, arr, i + 1)

\* setAll that inserts as addAll does: it stops at the first conflicting pair
setAllStrict(h, bs, this, pairs) == AddAllLoop(h, this, SourcePairs(h, bs, pairs), 1)

setAll(h, bs, this, pairs) == SetAllLoop(h, this, SourcePairs(h, bs, pairs), 1)

\* addAll that undoes the pairs it has added when a later pair conflicts
addAllOrNothing(h, bs, this, pairs) ==
    LET r == AddAllLoop(h, this, SourcePairs(h, bs, pairs), 1)
    IN  IF r.err = "none" THEN r ELSE [r EXCEPT !.h = h]

addAll(h, bs, this, pairs) == AddAllLoop(h, this, SourcePairs(h, bs, pairs), 1)

\* Map.prototype.forEach keeps its place in the entries of the Map while the
\* callback runs: an entry that is deleted at or before that place moves the
\* place back by one, an entry that is set anew goes last and is visited later.
\* cursor is the number of entries passed; this is it after m.delete(key)
PassedAfterDelete(m, key, cursor) ==
    IF IndexOf(m, key) \in 1..cursor THEN cursor - 1 ELSE cursor

\* the number of entries of the Map ref that a forEach in progress has passed,
\* after the callback this.set(key, value): deleteKey and deleteValue delete
\* from the forward table of this the entry of key and the entry of the key
\* that holds value
PassedAfterSet(h, this, key, value, ref, cursor) ==
    LET c1 == IF ref = this.key2value /\ hasKey(h, this, key)
              THEN PassedAfterDelete(h[ref], key, cursor) ELSE cursor
        h1 == IF hasKey(h, this, key) THEN deleteKey(h, this, key).h ELSE h
        c2 == IF ref = this.key2value /\ hasValue(h1, this, value)
              THEN PassedAfterDelete(h1[ref], getKey(h1, this, value), c1) ELSE c1
    IN  c2

\* the two Map objects a container under construction owns until it is returned
Fresh == [key2value |-> 5, value2key |-> 6]

\* clone that hands out the tables of the original instead of copies
cloneShared(h, this) == Result(h, this, "none")

clone(h, this) ==
    LET h1 == [h EXCEPT ![Fresh.key2value] = NewMap(MapEntries(h[this.key2value]))]
        h2 == [h1 EXCEPT ![Fresh.value2key] = NewMap(MapEntries(h[this.value2key]))]
    IN  Result(h2, Fresh, "none")

\* from that fills the new container with setAll
fromSetAll(h, bs, pairs) ==
    LET r == setAll(h, bs, Fresh, pairs)
    IN  IF r.err = "none" THEN Result(r.h, Fresh, "none") ELSE r

\* from that hands a source container back instead of filling a new one
fromAlias(h, bs, pairs) ==
    IF pairs.kind = "bimap" THEN Result(h, bs[pairs.pairs], "none")
    ELSE LET r == addAll(h, bs, Fresh, pairs)
         IN  IF r.err = "none" THEN Result(r.h, Fresh, "none") ELSE r

from(h, bs, pairs) ==
    LET r == addAll(h, bs, Fresh, pairs)
    IN  IF r.err = "none" THEN Result(r.h, Fresh, "none") ELSE r

----------------------------------------------------------------------------
(* The calls the program makes.                                            *)

\* no call is pending: the caller is about to make its next call
NoCall == [op |-> "none", c |-> 1, key |-> Undefined, value |-> Undefined,
           kind |-> "none", pairs |-> <<>>, d |-> 0, list |-> <<>>,
           ret |-> FALSE, num |-> 0, err |-> "none", at |-> 0,
           pre |-> [r \in MapRefs |-> <<>>],
           prebs |-> [c \in BiMapIds |-> NoBiMap]]

\* the call op on the container of variable c, with the error and the heap
\* before it; the actions add the arguments and the return value
Call(op, c, r) ==
    [NoCall EXCEPT !.op = op, !.c = c, !.err = r.err, !.at = r.at,
                   !.pre = maps, !.prebs = bimaps]

\* the source of a batch insertion as the call records it: the pairs of an
\* array, a Map or a record, or the variable d of a container
WithSource(call, pairs) ==
    [call EXCEPT !.kind = pairs.kind,
                 !.pairs = IF pairs.kind = "bimap" THEN <<>> ELSE pairs.pairs,
                 !.d = IF pairs.kind = "bimap" THEN pairs.pairs ELSE 0]

\* a call in progress, followed statement by statement: the method, the
\* statement it is at, its receiver c and its arguments (a source container d
\* or a key and a value), the place of forEach in the entries of the source
\* (the number of entries it has passed), the number of pairs it has visited
\* and of those the source held at the call, and the heap at the call; mixed
\* records that some call has run while another one was in progress
NoFrame == [op |-> "none", pc |-> "none", c |-> 1, d |-> 1,
            key |-> Undefined, value |-> Undefined,
            cursor |-> 0, visits |-> 0, n |-> 0,
            pre |-> [r \in MapRefs |-> <<>>], mixed |-> FALSE]

\* the execution contexts calls are followed in
Procs == {1, 2}

Running(p) == frames[p].op # "none"

Idle == last.op = "none" /\ \A p \in Procs : ~Running(p)

Exists(c) == bimaps[c] # NoBiMap

\* the fields of the container bound to variable c refer to these Map objects
NewBiMap(c) == [key2value |-> 2 * c - 1, value2key |-> 2 * c]

\* binding a returned container to variable c: its Map objects take the
\* references of c (a renaming of the heap), the ones it replaces are dropped
Moved(ref, c) ==
    IF ref = Fresh.key2value THEN NewBiMap(c).key2value
    ELSE IF ref = Fresh.value2key THEN NewBiMap(c).value2key
    ELSE ref

BindMaps(h, c) ==
    [h EXCEPT ![NewBiMap(c).key2value] = h[Fresh.key2value],
              ![NewBiMap(c).value2key] = h[Fresh.value2key],
              ![Fresh.key2value] = <<>>,
              ![Fresh.value2key] = <<>>]

BindBiMap(bs, c, obj) ==
    [bs EXCEPT ![c] = [key2value |-> Moved(obj.key2value, c),
                       value2key |-> Moved(obj.value2key, c)]]

\* a container under construction that is never returned is dropped
Dropped(h) == [h EXCEPT ![Fresh.key2value] = <<>>, ![Fresh.value2key] = <<>>]

Arrays == UNION {[1..n -> Keys \X Values] : n \in 0..MaxPairs}
KeyArrays == UNION {[1..n -> Keys] : n \in 0..MaxDelete}
ValueArrays == UNION {[1..n -> Values] : n \in 0..MaxDelete}

\* the sources that are not containers: arrays, Maps and flat records
PlainSources ==
    {ArraySource(arr) : arr \in Arrays} \cup {MapSource(arr) : arr \in Arrays}
        \cup {RecordSource(arr) : arr \in Arrays}

Init ==
    /\ maps = [r \in MapRefs |-> <<>>]
    /\ bimaps = [c \in BiMapIds |-> IF c = 1 THEN NewBiMap(1) ELSE NoBiMap]
    /\ last = NoCall
    /\ frames = [p \in Procs |-> NoFrame]

Set(c, key, value) ==
    /\ Idle
    /\ Exists(c)
    /\ LET r == set(maps, bimaps[c], key, value)
       IN  /\ maps' = r.h
           /\ last' = [Call("set", c, r) EXCEPT !.key = key, !.value = value]
    /\ UNCHANGED <<bimaps, frames>>

Add(c, key, value) ==
    /\ Idle
    /\ Exists(c)
    /\ LET r == add(maps, bimaps[c], key, value)
       IN  /\ maps' = r.h
           /\ last' = [Call("add", c, r) EXCEPT !.key = key, !.value = value]
    /\ UNCHANGED <<bimaps, frames>>

DeleteKey(c, key) ==
    /\ Idle
    /\ Exists(c)
    /\ LET r == deleteKey(maps, bimaps[c], key)
       IN  /\ maps' = r.h
           /\ last' = [Call("deleteKey", c, r) EXCEPT !.key = key, !.ret = r.ret]
    /\ UNCHANGED <<bimaps, frames>>

DeleteValue(c, value) ==
    /\ Idle
    /\ Exists(c)
    /\ LET r == deleteValue(maps, bimaps[c], value)
       IN  /\ maps' = r.h
           /\ last' = [Call("deleteValue", c, r) EXCEPT !.value = value, !.ret = r.ret]
    /\ UNCHANGED <<bimaps, frames>>

DeleteKeys(c, ks) ==
    /\ Idle
    /\ Exists(c)
    /\ LET r == deleteKeys(maps, bimaps[c], ks)
       IN  /\ maps' = r.h
           /\ last' = [Call("deleteKeys", c, r) EXCEPT !.list = ks, !.num = r.ret]
    /\ UNCHANGED <<bimaps, frames>>

DeleteValues(c, vs) ==
    /\ Idle
    /\ Exists(c)
    /\ LET r == deleteValues(maps, bimaps[c], vs)
       IN  /\ maps' = r.h
           /\ last' = [Call("deleteValues", c, r) EXCEPT !.list = vs, !.num = r.ret]
    /\ UNCHANGED <<bimaps, frames>>

Clear(c) ==
    /\ Idle
    /\ Exists(c)
    /\ LET r == clear(maps, bimaps[c])
       IN  /\ maps' = r.h
           /\ last' = Call("clear", c, r)
    /\ UNCHANGED <<bimaps, frames>>

SetAll(c, pairs) ==
    /\ Idle
    /\ Exists(c)
    /\ LET r == setAll(maps, bimaps, bimaps[c], pairs)
       IN  /\ maps' = r.h
           /\ last' = WithSource(Call("setAll", c, r), pairs)
    /\ UNCHANGED <<bimaps, frames>>

AddAll(c, pairs) ==
    /\ Idle
    /\ Exists(c)
    /\ LET r == addAll(maps, bimaps, bimaps[c], pairs)
       IN  /\ maps' = r.h
           /\ last' = WithSource(Call("addAll", c, r), pairs)
    /\ UNCHANGED <<bimaps, frames>>

\* the queries: they read a table and return
Size(c) ==
    /\ Idle
    /\ Exists(c)
    /\ last' = [Call("size", c, Result(maps, 0, "none")) EXCEPT
                    !.num = size(maps, bimaps[c])]
    /\ UNCHANGED <<maps, bimaps, frames>>

HasKey(c, key) ==
    /\ Idle
    /\ Exists(c)
    /\ last' = [Call("hasKey", c, Result(maps, FALSE, "none")) EXCEPT
                    !.key = key, !.ret = hasKey(maps, bimaps[c], key)]
    /\ UNCHANGED <<maps, bimaps, frames>>

HasValue(c, value) ==
    /\ Idle
    /\ Exists(c)
    /\ last' = [Call("hasValue", c, Result(maps, FALSE, "none")) EXCEPT
                    !.value = value, !.ret = hasValue(maps, bimaps[c], value)]
    /\ UNCHANGED <<maps, bimaps, frames>>

AssertHasKey(c, key) ==
    /\ Idle
    /\ Exists(c)
    /\ LET r == assertHasKey(maps, bimaps[c], key)
       IN  /\ maps' = r.h
           /\ last' = [Call("assertHasKey", c, r) EXCEPT !.key = key]
    /\ UNCHANGED <<bimaps, frames>>

AssertHasValue(c, value) ==
    /\ Idle
    /\ Exists(c)
    /\ LET r == assertHasValue(maps, bimaps[c], value)
       IN  /\ maps' = r.h
           /\ last' = [Call("assertHasValue", c, r) EXCEPT !.value = value]
    /\ UNCHANGED <<bimaps, frames>>

\* getValue(key): the call records the value it returns
GetValue(c, key) ==
    /\ Idle
    /\ Exists(c)
    /\ last' = [Call("getValue", c, Result(maps, Undefined, "none")) EXCEPT
                    !.key = key, !.value = getValue(maps, bimaps[c], key)]
    /\ UNCHANGED <<maps, bimaps, frames>>

\* getKey(value): the call records the key it returns
GetKey(c, value) ==
    /\ Idle
    /\ Exists(c)
    /\ last' = [Call("getKey", c, Result(maps, Undefined, "none")) EXCEPT
                    !.value = value, !.key = getKey(maps, bimaps[c], value)]
    /\ UNCHANGED <<maps, bimaps, frames>>

\* d = c.clone()
Clone(c, d) ==
    /\ Idle
    /\ Exists(c)
    /\ LET r == clone(maps, bimaps[c])
       IN  /\ maps' = BindMaps(r.h, d)
           /\ bimaps' = BindBiMap(bimaps, d, r.ret)
           /\ last' = [Call("clone", c, r) EXCEPT !.d = d]
    /\ UNCHANGED frames

\* c = BiMap.from(pairs); a throw leaves c bound to what it was
From(c, pairs) ==
    /\ Idle
    /\ LET r == from(maps, bimaps, pairs)
       IN  /\ maps' = IF r.err = "none" THEN BindMaps(r.h, c) ELSE Dropped(r.h)
           /\ bimaps' = IF r.err = "none" THEN BindBiMap(bimaps, c, r.ret) ELSE bimaps
           /\ last' = WithSource(Call("from", c, r), pairs)
    /\ UNCHANGED frames

\* c.setAll(d) or c.addAll(d) with a container d, which may be c itself:
\* pairs.forEach(...) starts on the forward table of d
ForEachCall(p, op, c, d) ==
    /\ Idle
    /\ Exists(c) /\ Exists(d)
    /\ frames' = [frames EXCEPT ![p] =
                     [NoFrame EXCEPT !.op = op, !.pc = "forEach", !.c = c, !.d = d,
                                     !.n = size(maps, bimaps[d]), !.pre = maps]]
    /\ UNCHANGED <<maps, bimaps, last>>

\* what the caller sees of the call of frame f when it ends
Returned(f, err) ==
    [NoCall EXCEPT !.op = f.op, !.c = f.c, !.kind = "bimap", !.d = f.d,
                   !.err = err, !.at = IF err = "none" THEN 0 ELSE f.visits + 1,
                   !.num = f.visits, !.pre = f.pre, !.prebs = bimaps]

\* forEach hands the next entry of the source to ([key, value]) => this.set(key, value)
SetAllForEach(p) ==
    LET f == frames[p]
        ref == bimaps[f.d].key2value
        this == bimaps[f.c]
    IN  /\ f.op = "setAll" /\ f.pc = "forEach"
        /\ f.cursor < MapSize(maps[ref])
        /\ f.visits < MaxVisits
        /\ LET e == maps[ref][f.cursor + 1]
           IN  /\ maps' = set(maps, this, e[1], e[2]).h
               /\ frames' = [frames EXCEPT
                      ![p].cursor = PassedAfterSet(maps, this, e[1], e[2], ref, f.cursor + 1),
                      ![p].visits = f.visits + 1]
        /\ UNCHANGED <<bimaps, last>>

\* forEach hands the next entry of the source to ([key, value]) => this.add(key, value);
\* a throw of add ends forEach and the call
AddAllForEach(p) ==
    LET f == frames[p]
        ref == bimaps[f.d].key2value
        this == bimaps[f.c]
    IN  /\ f.op = "addAll" /\ f.pc = "forEach"
        /\ f.cursor < MapSize(maps[ref])
        /\ f.visits < MaxVisits
        /\ LET e == maps[ref][f.cursor + 1]
               r == add(maps, this, e[1], e[2])
           IN  /\ maps' = r.h
               /\ IF r.err = "none"
                  THEN /\ frames' = [frames EXCEPT ![p].cursor = f.cursor + 1,
                                                   ![p].visits = f.visits + 1]
                       /\ UNCHANGED last
                  ELSE /\ frames' = [frames EXCEPT ![p] = NoFrame]
                       /\ last' = Returned(f, r.err)
        /\ UNCHANGED bimaps

\* forEach has no entry left: return this
ForEachReturn(p) ==
    LET f == frames[p]
    IN  /\ f.pc = "forEach"
        /\ f.cursor >= MapSize(maps[bimaps[f.d].key2value])
        /\ frames' = [frames EXCEPT ![p] = NoFrame]
        /\ last' = Returned(f, "none")
        /\ UNCHANGED <<maps, bimaps>>

----------------------------------------------------------------------------
(* set, add, deleteKey and deleteValue followed statement by statement, so  *)
(* that a call of another execution context can run between two statements *)
(* of a call.  A frame is at the statement it executes next.                *)

\* this.value2key.delete(this.key2value.get(key)!)
deleteKeyInverse(h, this, key) ==
    [h EXCEPT ![this.value2key] = MapDelete(@, MapGet(h[this.key2value], key))]

\* this.key2value.delete(key)
deleteKeyForward(h, this, key) == [h EXCEPT ![this.key2value] = MapDelete(@, key)]

\* this.key2value.delete(this.value2key.get(value)!)
deleteValueForward(h, this, value) ==
    [h EXCEPT ![this.key2value] = MapDelete(@, MapGet(h[this.value2key], value))]

\* this.value2key.delete(value)
deleteValueInverse(h, this, value) == [h EXCEPT ![this.value2key] = MapDelete(@, value)]

\* a forward write that writes the inverse table in the same statement
setForwardBoth(h, this, key, value) ==
    [h EXCEPT ![this.key2value] = MapSet(@, key, value),
              ![this.value2key] = MapSet(@, value, key)]

\* this.key2value.set(key, value)
setForward(h, this, key, value) == [h EXCEPT ![this.key2value] = MapSet(@, key, value)]

\* this.value2key.set(value, key)
setInverse(h, this, key, value) == [h EXCEPT ![this.value2key] = MapSet(@, value, key)]

\* the keys and values the calls followed statement by statement are made with
StepKeys == {"a", "b"}
StepValues == {"1", "2"}

\* the frames after execution context p has called op: its frame is at the
\* first statement pc of op; a call that starts while another is in progress
\* is recorded as mixed
Started(p, op, pc, key, value) ==
    LET mixed == frames[p].mixed \/ \E q \in Procs \ {p} : Running(q)
    IN  [q \in Procs |->
            IF q = p
            THEN [NoFrame EXCEPT !.op = op, !.pc = pc, !.key = key,
                                 !.value = value, !.mixed = mixed]
            ELSE [frames[q] EXCEPT !.mixed = mixed]]

CallSet(p, key, value) ==
    /\ last.op = "none" /\ ~Running(p)
    /\ frames' = Started(p, "set", "set.hasKey", key, value)
    /\ UNCHANGED <<maps, bimaps, last>>

CallAdd(p, key, value) ==
    /\ last.op = "none" /\ ~Running(p)
    /\ frames' = Started(p, "add", "add.hasKey", key, value)
    /\ UNCHANGED <<maps, bimaps, last>>

CallDeleteKey(p, key) ==
    /\ last.op = "none" /\ ~Running(p)
    /\ frames' = Started(p, "deleteKey", "deleteKey.hasKey", key, Undefined)
    /\ UNCHANGED <<maps, bimaps, last>>

CallDeleteValue(p, value) ==
    /\ last.op = "none" /\ ~Running(p)
    /\ frames' = Started(p, "deleteValue", "deleteValue.hasValue", Undefined, value)
    /\ UNCHANGED <<maps, bimaps, last>>

\* the frames after the frame of p has moved to statement pc ("return": the
\* call has ended, by a return or a throw)
Goto(p, pc) ==
    [frames EXCEPT ![p] = IF pc = "return"
                          THEN [NoFrame EXCEPT !.mixed = frames[p].mixed]
                          ELSE [frames[p] EXCEPT !.pc = pc]]

\* a statement of deleteKey, called by the caller or by set
DeleteKeyStep(p) ==
    LET f == frames[p]
        this == bimaps[f.c]
        back == IF f.op = "set" THEN "set.hasValue" ELSE "return"
    IN  /\ \/ /\ f.pc = "deleteKey.hasKey"
              /\ frames' = Goto(p, IF hasKey(maps, this, f.key)
                                   THEN "deleteKey.inverse" ELSE back)
              /\ UNCHANGED maps
           \/ /\ f.pc = "deleteKey.inverse"
              /\ maps' = deleteKeyInverse(maps, this, f.key)
              /\ frames' = Goto(p, "deleteKey.forward")
           \/ /\ f.pc = "deleteKey.forward"
              /\ maps' = deleteKeyForward(maps, this, f.key)
              /\ frames' = Goto(p, back)
        /\ UNCHANGED <<bimaps, last>>

\* a statement of deleteValue, called by the caller or by set
DeleteValueStep(p) ==
    LET f == frames[p]
        this == bimaps[f.c]
        back == IF f.op = "set" THEN "set.forward" ELSE "return"
    IN  /\ \/ /\ f.pc = "deleteValue.hasValue"
              /\ frames' = Goto(p, IF hasValue(maps, this, f.value)
                                   THEN "deleteValue.forward" ELSE back)
              /\ UNCHANGED maps
           \/ /\ f.pc = "deleteValue.forward"
              /\ maps' = deleteValueForward(maps, this, f.value)
              /\ frames' = Goto(p, "deleteValue.inverse")
           \/ /\ f.pc = "deleteValue.inverse"
              /\ maps' = deleteValueInverse(maps, this, f.value)
              /\ frames' = Goto(p, back)
        /\ UNCHANGED <<bimaps, last>>

\* a statement of set
SetStep(p) ==
    LET f == frames[p]
        this == bimaps[f.c]
    IN  /\ \/ /\ f.pc = "set.hasKey"
              /\ frames' = Goto(p, IF hasKey(maps, this, f.key)
                                   THEN "deleteKey.hasKey" ELSE "set.hasValue")
              /\ UNCHANGED maps
           \/ /\ f.pc = "set.hasValue"
              /\ frames' = Goto(p, IF hasValue(maps, this, f.value)
                                   THEN "deleteValue.hasValue" ELSE "set.forward")
              /\ UNCHANGED maps
           \/ /\ f.pc = "set.forward"
              /\ maps' = setForward(maps, this, f.key, f.value)
              /\ frames' = Goto(p, "set.inverse")
           \/ /\ f.pc = "set.inverse"
              /\ maps' = setInverse(maps, this, f.key, f.value)
              /\ frames' = Goto(p, "return")
        /\ UNCHANGED <<bimaps, last>>

\* a statement of add
AddStep(p) ==
    LET f == frames[p]
        this == bimaps[f.c]
    IN  /\ \/ /\ f.pc = "add.hasKey"
              /\ frames' = Goto(p, IF hasKey(maps, this, f.key)
                                   THEN "return" ELSE "add.hasValue")
              /\ UNCHANGED maps
           \/ /\ f.pc = "add.hasValue"
              /\ frames' = Goto(p, IF hasValue(maps, this, f.value)
                                   THEN "return" ELSE "add.forward")
              /\ UNCHANGED maps
           \/ /\ f.pc = "add.forward"
              /\ maps' = setForward(maps, this, f.key, f.value)
              /\ frames' = Goto(p, "add.inverse")
           \/ /\ f.pc = "add.inverse"
              /\ maps' = setInverse(maps, this, f.key, f.value)
              /\ frames' = Goto(p, "return")
        /\ UNCHANGED <<bimaps, last>>

\* the caller has looked at the result of the call and goes on
Continue ==
    /\ last.op # "none"
    /\ last' = NoCall
    /\ UNCHANGED <<maps, bimaps, frames>>

\* the arguments the caller may pass now: none while a result is pending
Offered(S) == IF Idle THEN S ELSE {}

\* two containers: single-pair operations, batch deletion, clone, and the
\* batch insertions whose source is the other container
Next ==
    \/ \E c \in BiMapIds, key \in Keys, value \in Values : Set(c, key, value)
    \/ \E c \in BiMapIds, key \in Keys, value \in Values : Add(c, key, value)
    \/ \E c \in BiMapIds, key \in Keys : DeleteKey(c, key)
    \/ \E c \in BiMapIds, value \in Values : DeleteValue(c, value)
    \/ \E c \in BiMapIds, ks \in Offered(KeyArrays) : DeleteKeys(c, ks)
    \/ \E c \in BiMapIds, vs \in Offered(ValueArrays) : DeleteValues(c, vs)
    \/ \E c \in BiMapIds : Clear(c)
    \/ \E c, d \in BiMapIds : Clone(c, d)
    \/ \E c, d \in BiMapIds : Exists(d) /\ d # c /\ SetAll(c, BiMapSource(d))
    \/ \E c, d \in BiMapIds : Exists(d) /\ d # c /\ AddAll(c, BiMapSource(d))
    \/ \E c, d \in BiMapIds : Exists(d) /\ From(c, BiMapSource(d))
    \/ Continue

Spec == Init /\ [][Next]_vars

\* one container: every operation, the batch insertions on arrays, Maps and
\* flat records
NextBatch ==
    \/ \E key \in Keys, value \in Values : Set(1, key, value)
    \/ \E key \in Keys, value \in Values : Add(1, key, value)
    \/ \E key \in Keys : DeleteKey(1, key)
    \/ \E value \in Values : DeleteValue(1, value)
    \/ \E ks \in Offered(KeyArrays) : DeleteKeys(1, ks)
    \/ \E vs \in Offered(ValueArrays) : DeleteValues(1, vs)
    \/ Clear(1)
    \/ Clone(1, 1)
    \/ \E pairs \in Offered(PlainSources) : SetAll(1, pairs)
    \/ \E pairs \in Offered(PlainSources) : AddAll(1, pairs)
    \/ \E pairs \in Offered(PlainSources) : From(1, pairs)
    \/ Continue

SpecBatch == Init /\ [][NextBatch]_vars

\* one container: the operations on one pair, batch deletion, clear and the
\* queries
NextSingle ==
    \/ \E key \in Keys, value \in Values : Set(1, key, value)
    \/ \E key \in Keys, value \in Values : Add(1, key, value)
    \/ \E key \in Keys : DeleteKey(1, key)
    \/ \E value \in Values : DeleteValue(1, value)
    \/ \E ks \in Offered(KeyArrays) : DeleteKeys(1, ks)
    \/ \E vs \in Offered(ValueArrays) : DeleteValues(1, vs)
    \/ Clear(1)
    \/ Size(1)
    \/ \E key \in Keys : HasKey(1, key)
    \/ \E value \in Values : HasValue(1, value)
    \/ \E key \in Keys : AssertHasKey(1, key)
    \/ \E value \in Values : AssertHasValue(1, value)
    \/ \E key \in Keys : GetValue(1, key)
    \/ \E value \in Values : GetKey(1, value)
    \/ Continue

SpecSingle == Init /\ [][NextSingle]_vars

\* two containers: the copies clone and from make of a container, and
\* mutations of the original and of the copy
NextCopy ==
    \/ \E c \in BiMapIds, key \in Keys, value \in Values : Set(c, key, value)
    \/ \E c \in BiMapIds, key \in Keys : DeleteKey(c, key)
    \/ \E c \in BiMapIds : Clear(c)
    \/ \E c, d \in BiMapIds : Clone(c, d)
    \/ \E c, d \in BiMapIds : Exists(d) /\ From(c, BiMapSource(d))
    \/ Continue

SpecCopy == Init /\ [][NextCopy]_vars

\* two containers: setAll and addAll whose source is a container, the receiver
\* included, followed pair by pair through forEach
NextForEach ==
    \/ \E c \in BiMapIds, key \in Keys, value \in Values : Set(c, key, value)
    \/ \E c, d \in BiMapIds : Clone(c, d)
    \/ \E c, d \in BiMapIds : ForEachCall(1, "setAll", c, d)
    \/ \E c, d \in BiMapIds : ForEachCall(1, "addAll", c, d)
    \/ SetAllForEach(1)
    \/ AddAllForEach(1)
    \/ ForEachReturn(1)
    \/ Continue

SpecForEach == Init /\ [][NextForEach]_vars

\* one container shared by two execution contexts without mutual exclusion:
\* their calls of set, add, deleteKey and deleteValue interleave statement by
\* statement
NextSteps ==
    \/ \E p \in Procs, key \in StepKeys, value \in StepValues : CallSet(p, key, value)
    \/ \E p \in Procs, key \in StepKeys, value \in StepValues : CallAdd(p, key, value)
    \/ \E p \in Procs, key \in StepKeys : CallDeleteKey(p, key)
    \/ \E p \in Procs, value \in StepValues : CallDeleteValue(p, value)
    \/ \E p \in Procs : SetStep(p)
    \/ \E p \in Procs : AddStep(p)
    \/ \E p \in Procs : DeleteKeyStep(p)
    \/ \E p \in Procs : DeleteValueStep(p)

SpecSteps == Init /\ [][NextSteps]_vars

----------------------------------------------------------------------------
(* The container of variable c now, and the receiver of the last call      *)
(* before that call.                                                       *)

Fwd(c) == maps[bimaps[c].key2value]
Inv(c) == maps[bimaps[c].value2key]
PreFwd == last.pre[last.prebs[last.c].key2value]
PreInv == last.pre[last.prebs[last.c].value2key]
PreThis == last.prebs[last.c]

PairSet(m) == {<<m[i][1], m[i][2]>> : i \in 1..Len(m)}
Flipped(ps) == {<<p[2], p[1]>> : p \in ps}
Called(op) == last.op = op

\* the source handed to the last batch insertion
LastSource ==
    [kind |-> last.kind, pairs |-> IF last.kind = "bimap" THEN last.d ELSE last.pairs]

----------------------------------------------------------------------------
\* C1: in every reachable state the forward and inverse tables of a container
\* are exact inverses: forward[k] = v iff inverse[v] = k, no two keys share a
\* value, getKey(getValue(k)) = k for every key and getValue(getKey(v)) = v
\* for every value.
BijectionInvariant ==
    \A c \in BiMapIds : Exists(c) =>
        LET this == bimaps[c] IN
        /\ \A k \in Keys, v \in Values :
              (getValue(maps, this, k) = v) <=> (getKey(maps, this, v) = k)
        /\ PairSet(Inv(c)) = Flipped(PairSet(Fwd(c)))
        /\ \A i, j \in 1..Len(Fwd(c)) : Fwd(c)[i][2] = Fwd(c)[j][2] => i = j
        /\ \A k \in Keys : hasKey(maps, this, k) =>
              getKey(maps, this, getValue(maps, this, k)) = k
        /\ \A v \in Values : hasValue(maps, this, v) =>
              getValue(maps, this, getKey(maps, this, v)) = v

\* an addAll that failed part-way has left two pairs in the container
BijectionWitness ==
    /\ Called("addAll") /\ last.err # "none" /\ last.at >= 2
    /\ Len(Fwd(1)) >= 2

\* C2: an add that is called with a key or a value that is already present
\* fails and leaves both tables with the same entries in the same order, and
\* the size unchanged.
AddFailureAtomic ==
    Called("add") =>
        /\ (hasKey(last.pre, PreThis, last.key)
              \/ hasValue(last.pre, PreThis, last.value)) => last.err # "none"
        /\ last.err # "none" =>
              /\ Fwd(last.c) = PreFwd
              /\ Inv(last.c) = PreInv
              /\ size(maps, bimaps[last.c]) = size(last.pre, PreThis)
              /\ maps = last.pre

\* an add failed on a value that was present under another key
AddFailureWitness ==
    /\ Called("add") /\ last.err = "ValueConflict"
    /\ ~hasKey(maps, bimaps[last.c], last.key)
    /\ Len(Fwd(last.c)) >= 1

\* C3: add fails with KeyConflict exactly when the key is present (also when
\* the value is present too), with ValueConflict exactly when the key is absent
\* and the value present, and otherwise succeeds; a successful add leaves the
\* old pairs plus (k, v), the state set(k, v) produces from the same state.
AddPolicy ==
    Called("add") =>
        LET hadKey == hasKey(last.pre, PreThis, last.key)
            hadValue == hasValue(last.pre, PreThis, last.value)
        IN  /\ (last.err = "KeyConflict") <=> hadKey
            /\ (last.err = "ValueConflict") <=> (~hadKey /\ hadValue)
            /\ (last.err = "none") <=> (~hadKey /\ ~hadValue)
            /\ last.err = "none" =>
                  /\ PairSet(Fwd(last.c)) =
                        PairSet(PreFwd) \cup {<<last.key, last.value>>}
                  /\ PairSet(Inv(last.c)) =
                        PairSet(PreInv) \cup {<<last.value, last.key>>}
                  /\ maps = set(last.pre, PreThis, last.key, last.value).h

\* an add met a key and a value that were both present, in two pairs
AddPolicyWitness ==
    /\ Called("add") /\ last.err = "KeyConflict"
    /\ hasValue(maps, bimaps[last.c], last.value)
    /\ getKey(maps, bimaps[last.c], last.value) # last.key

\* C4: after set(k, v) the pairs are the old pairs without those of key k or
\* value v, plus (k, v): exactly one pair has key k, exactly one has value v,
\* it is the same pair, and the other old pairs are kept; from {a:1, b:2},
\* set(a, 2) yields exactly {a:2}.
SetUpsert ==
    Called("set") =>
        LET old == PairSet(PreFwd)
            new == PairSet(Fwd(last.c))
            k == last.key
            v == last.value
        IN  /\ new = {p \in old : p[1] # k /\ p[2] # v} \cup {<<k, v>>}
            /\ PairSet(Inv(last.c)) = Flipped(new)
            /\ Len(Fwd(last.c)) = Cardinality(new)
            /\ Len(Inv(last.c)) = Cardinality(new)
            /\ {p \in new : p[1] = k} = {<<k, v>>}
            /\ {p \in new : p[2] = v} = {<<k, v>>}
            /\ \A p \in old : (p[1] # k /\ p[2] # v) => p \in new
            /\ (PreFwd = <<<<"a", "1">>, <<"b", "2">>>> /\ k = "a" /\ v = "2") =>
                  /\ Fwd(last.c) = <<<<"a", "2">>>>
                  /\ Inv(last.c) = <<<<"2", "a">>>>
                  /\ size(maps, bimaps[last.c]) = 1

\* set(a, 2) was called on {a:1, b:2}
SetUpsertWitness ==
    /\ Called("set") /\ last.key = "a" /\ last.value = "2"
    /\ PreFwd = <<<<"a", "1">>, <<"b", "2">>>>

\* C5: size, read from the forward table, is the number of elements of keys(),
\* of values() (read from the inverse table) and of entries(): the two tables
\* have the same number of entries.
SizeConsistency ==
    \A c \in BiMapIds : Exists(c) =>
        LET this == bimaps[c] IN
        /\ size(maps, this) = Len(keys(maps, this))
        /\ size(maps, this) = Len(values(maps, this))
        /\ size(maps, this) = Len(entries(maps, this))
        /\ MapSize(Fwd(c)) = MapSize(Inv(c))

\* a set has evicted two pairs and the container is not empty
SizeWitness ==
    /\ Called("set")
    /\ size(maps, bimaps[last.c]) = size(last.pre, PreThis) - 1
    /\ size(maps, bimaps[last.c]) = 2

\* C6: deleteKey(k) returns true iff k was a key; then exactly the pair of k
\* is removed from both tables and every other pair kept, in place; when it
\* returns false nothing changes, and a second deleteKey(k) returns false and
\* changes nothing.  deleteValue(v) likewise, by value.
DeleteCorrect ==
    /\ Called("deleteKey") =>
          LET k == last.key
              v == getValue(last.pre, PreThis, k)
              again == deleteKey(maps, bimaps[last.c], k)
          IN  /\ last.ret = hasKey(last.pre, PreThis, k)
              /\ last.ret = TRUE =>
                    /\ Fwd(last.c) = SelectSeq(PreFwd, LAMBDA e : e # <<k, v>>)
                    /\ Inv(last.c) = SelectSeq(PreInv, LAMBDA e : e # <<v, k>>)
                    /\ Len(Fwd(last.c)) = Len(PreFwd) - 1
                    /\ Len(Inv(last.c)) = Len(PreInv) - 1
              /\ last.ret = FALSE => maps = last.pre
              /\ again.ret = FALSE /\ again.h = maps
    /\ Called("deleteValue") =>
          LET v == last.value
              k == getKey(last.pre, PreThis, v)
              again == deleteValue(maps, bimaps[last.c], v)
          IN  /\ last.ret = hasValue(last.pre, PreThis, v)
              /\ last.ret = TRUE =>
                    /\ Fwd(last.c) = SelectSeq(PreFwd, LAMBDA e : e # <<k, v>>)
                    /\ Inv(last.c) = SelectSeq(PreInv, LAMBDA e : e # <<v, k>>)
                    /\ Len(Fwd(last.c)) = Len(PreFwd) - 1
                    /\ Len(Inv(last.c)) = Len(PreInv) - 1
              /\ last.ret = FALSE => maps = last.pre
              /\ again.ret = FALSE /\ again.h = maps

\* a deleteKey removed one pair of three
DeleteWitness ==
    /\ Called("deleteKey") /\ last.ret = TRUE
    /\ Len(PreFwd) = 3 /\ Len(Fwd(last.c)) = 2

\* C7: an addAll that meets a conflicting pair at position i of its source
\* fails with the error add raises for that pair; the pairs before i have been
\* appended and stay, the pair at i and the later ones are not inserted, and
\* the tables are still inverses.  Without a conflict every pair is appended.
AddAllPartial ==
    Called("addAll") =>
        LET src == SourcePairs(last.pre, last.prebs, LastSource)
            i == last.at
            this == bimaps[last.c]
            FlipSeq(q) == [j \in 1..Len(q) |-> <<q[j][2], q[j][1]>>]
        IN  /\ last.err = "none" =>
                  /\ i = 0
                  /\ Fwd(last.c) = PreFwd \o src
                  /\ Inv(last.c) = PreInv \o FlipSeq(src)
            /\ last.err # "none" =>
                  /\ i \in 1..Len(src)
                  /\ last.err \in {"KeyConflict", "ValueConflict"}
                  /\ last.err = add(maps, this, src[i][1], src[i][2]).err
                  /\ Fwd(last.c) = PreFwd \o SubSeq(src, 1, i - 1)
                  /\ Inv(last.c) = PreInv \o FlipSeq(SubSeq(src, 1, i - 1))
            /\ PairSet(Inv(last.c)) = Flipped(PairSet(Fwd(last.c)))
            /\ \A k \in Keys : hasKey(maps, this, k) =>
                  getKey(maps, this, getValue(maps, this, k)) = k
            /\ \A v \in Values : hasValue(maps, this, v) =>
                  getValue(maps, this, getKey(maps, this, v)) = v

\* an addAll failed on the value of its third pair after adding two pairs
AddAllPartialWitness ==
    /\ Called("addAll") /\ last.err = "ValueConflict" /\ last.at = 3
    /\ Len(Fwd(last.c)) = Len(PreFwd) + 2

\* the calls that change the receiver
Mutators == {"set", "add", "deleteKey", "deleteValue", "deleteKeys",
             "deleteValues", "clear", "setAll", "addAll"}

\* C8: clone returns a container with the pairs of the original, in tables of
\* its own; a mutating call on one container leaves the pairs, the size and
\* the query results of the other as they were.
CloneIndependent ==
    /\ Called("clone") =>
          LET c == last.c
              d == last.d
          IN  /\ Fwd(d) = PreFwd
              /\ Inv(d) = PreInv
              /\ PairSet(Fwd(d)) = PairSet(PreFwd)
              /\ d # c =>
                    /\ Fwd(c) = PreFwd
                    /\ Inv(c) = PreInv
                    /\ {bimaps[d].key2value, bimaps[d].value2key}
                          \cap {bimaps[c].key2value, bimaps[c].value2key} = {}
    /\ last.op \in Mutators =>
          \A d \in BiMapIds \ {last.c} : Exists(d) =>
              /\ Fwd(d) = last.pre[last.prebs[d].key2value]
              /\ Inv(d) = last.pre[last.prebs[d].value2key]
              /\ size(maps, bimaps[d]) = size(last.pre, last.prebs[d])
              /\ \A k \in Keys :
                    getValue(maps, bimaps[d], k) = getValue(last.pre, last.prebs[d], k)
              /\ \A v \in Values :
                    getKey(maps, bimaps[d], v) = getKey(last.pre, last.prebs[d], v)

\* a key was deleted from the second container and the first still has it
CloneWitness ==
    /\ Called("deleteKey") /\ last.c = 2 /\ last.ret = TRUE
    /\ hasKey(maps, bimaps[1], last.key)
    /\ Fwd(1) = last.pre[last.prebs[2].key2value]

\* the first position of arr whose pair repeats the key or the value of an
\* earlier pair, 0 when there is none
RepeatsKeyAt(arr, i) == \E j \in 1..(i - 1) : arr[j][1] = arr[i][1]
RepeatsValueAt(arr, i) == \E j \in 1..(i - 1) : arr[j][2] = arr[i][2]
RepeatsKey(arr) == \E i \in 1..Len(arr) : RepeatsKeyAt(arr, i)
RepeatsValue(arr) == \E i \in 1..Len(arr) : RepeatsValueAt(arr, i)
FirstRepeat(arr) ==
    IF RepeatsKey(arr) \/ RepeatsValue(arr)
    THEN CHOOSE i \in 1..Len(arr) :
            /\ RepeatsKeyAt(arr, i) \/ RepeatsValueAt(arr, i)
            /\ \A j \in 1..(i - 1) : ~RepeatsKeyAt(arr, j) /\ ~RepeatsValueAt(arr, j)
    ELSE 0

\* what new BiMap().addAll(pairs) yields
EmptyHeap == [ref \in MapRefs |-> <<>>]
OnEmpty(pairs) == addAll(EmptyHeap, last.prebs, Fresh, pairs)

FromAsAddAll ==
    LET r == OnEmpty(LastSource)
    IN  /\ last.err = r.err
        /\ last.at = r.at
        /\ last.err = "none" =>
              /\ Fwd(last.c) = r.h[Fresh.key2value]
              /\ Inv(last.c) = r.h[Fresh.value2key]
        /\ last.err # "none" => (maps = last.pre /\ bimaps = last.prebs)

\* C9 as stated: from(source) is new BiMap().addAll(source); a pair array with
\* distinct keys and distinct values yields exactly those pairs, one that
\* repeats a key fails with KeyConflict, one that repeats a value under
\* distinct keys fails with ValueConflict, at the first repeated pair.
FromRepeatedKeyIsKeyConflict ==
    (Called("from") /\ last.kind = "array") =>
        LET arr == last.pairs
        IN  /\ FromAsAddAll
            /\ (~RepeatsKey(arr) /\ ~RepeatsValue(arr)) =>
                  (last.err = "none" /\ Fwd(last.c) = arr)
            /\ RepeatsKey(arr) => last.err = "KeyConflict"
            /\ (~RepeatsKey(arr) /\ RepeatsValue(arr)) =>
                  (last.err = "ValueConflict" /\ last.at = FirstRepeat(arr))

\* C9, amended: from(source) is new BiMap().addAll(source); a pair array with
\* distinct keys and distinct values yields exactly those pairs, in order; an
\* array in which some pair repeats the key or the value of an earlier pair
\* fails at the first such pair, with KeyConflict when that pair repeats a key
\* and with ValueConflict when it repeats a value only.
FromFirstRepeat ==
    Called("from") =>
        /\ FromAsAddAll
        /\ last.kind = "array" =>
              LET arr == last.pairs
                  i == FirstRepeat(arr)
              IN  /\ i = 0 =>
                        /\ last.err = "none"
                        /\ Fwd(last.c) = arr
                        /\ PairSet(Inv(last.c)) = Flipped(PairSet(arr))
                  /\ i # 0 =>
                        /\ last.at = i
                        /\ RepeatsKeyAt(arr, i) => last.err = "KeyConflict"
                        /\ ~RepeatsKeyAt(arr, i) => last.err = "ValueConflict"

\* from failed with ValueConflict on an array that also repeats a key, later
FromFirstRepeatWitness ==
    /\ Called("from") /\ last.kind = "array"
    /\ RepeatsKey(last.pairs)
    /\ last.err = "ValueConflict" /\ last.at = 2

\* The container as the list of its pairs in insertion order: an insertion
\* appends, a removal takes the pair out, an eviction is a removal.
ListSet(l, k, v) == Append(SelectSeq(l, LAMBDA p : p[1] # k /\ p[2] # v), <<k, v>>)
ListFree(l, k, v) == \A j \in 1..Len(l) : l[j][1] # k /\ l[j][2] # v
ListDeleteKey(l, k) == SelectSeq(l, LAMBDA p : p[1] # k)
ListDeleteValue(l, v) == SelectSeq(l, LAMBDA p : p[2] # v)

RECURSIVE ListSetAll(_, _, _)
ListSetAll(l, src, i) ==
    IF i > Len(src) THEN l ELSE ListSetAll(ListSet(l, src[i][1], src[i][2]), src, i + 1)

\* pairs are appended up to the first one that conflicts
RECURSIVE ListAddAll(_, _, _)
ListAddAll(l, src, i) ==
    IF i > Len(src) \/ ~ListFree(l, src[i][1], src[i][2]) THEN l
    ELSE ListAddAll(Append(l, src[i]), src, i + 1)

RECURSIVE ListDeleteKeys(_, _, _)
ListDeleteKeys(l, ks, i) ==
    IF i > Len(ks) THEN l ELSE ListDeleteKeys(ListDeleteKey(l, ks[i]), ks, i + 1)

RECURSIVE ListDeleteValues(_, _, _)
ListDeleteValues(l, vs, i) ==
    IF i > Len(vs) THEN l ELSE ListDeleteValues(ListDeleteValue(l, vs[i]), vs, i + 1)

\* the list after the last call, from the list before it
ListAfter ==
    LET l == PreFwd
        src == SourcePairs(last.pre, last.prebs, LastSource)
    IN  CASE Called("set") -> ListSet(l, last.key, last.value)
          [] Called("add") -> IF ListFree(l, last.key, last.value)
                              THEN Append(l, <<last.key, last.value>>) ELSE l
          [] Called("deleteKey") -> ListDeleteKey(l, last.key)
          [] Called("deleteValue") -> ListDeleteValue(l, last.value)
          [] Called("deleteKeys") -> ListDeleteKeys(l, last.list, 1)
          [] Called("deleteValues") -> ListDeleteValues(l, last.list, 1)
          [] Called("clear") -> <<>>
          [] Called("clone") -> l
          [] Called("setAll") -> ListSetAll(l, src, 1)
          [] Called("addAll") -> ListAddAll(l, src, 1)
          [] Called("from") -> IF last.err = "none" THEN ListAddAll(<<>>, src, 1) ELSE l

\* C10: keys(), values() and entries() enumerate the surviving pairs in the
\* order of their insertion: the i-th element of values() is the value paired
\* with the i-th element of keys(), and entries() pairs keys() with values().
IterationOrder ==
    /\ \A c \in BiMapIds : Exists(c) =>
          LET this == bimaps[c]
              ks == keys(maps, this)
              vs == values(maps, this)
              es == entries(maps, this)
          IN  /\ Len(ks) = Len(vs)
              /\ Len(es) = Len(ks)
              /\ \A i \in 1..Len(ks) :
                    /\ vs[i] = getValue(maps, this, ks[i])
                    /\ es[i] = <<ks[i], vs[i]>>
    /\ last.op # "none" =>
          LET this == bimaps[IF Called("clone") THEN last.d ELSE last.c]
          IN  /\ entries(maps, this) = ListAfter
              /\ keys(maps, this) = [i \in 1..Len(ListAfter) |-> ListAfter[i][1]]
              /\ values(maps, this) = [i \in 1..Len(ListAfter) |-> ListAfter[i][2]]

\* a set on the key of the first of three pairs has moved that key last
IterationOrderWitness ==
    /\ Called("set") /\ Len(PreFwd) = 3 /\ Len(Fwd(last.c)) = 3
    /\ PreFwd[1][1] = last.key
    /\ keys(maps, bimaps[last.c])[3] = last.key
    /\ values(maps, bimaps[last.c])[3] = last.value

\* the heap after this.set has been applied to the first n pairs of src
RECURSIVE SetEach(_, _, _, _)
SetEach(h, this, src, n) ==
    IF n = 0 THEN h
    ELSE set(SetEach(h, this, src, n - 1), this, src[n][1], src[n][2]).h

\* C11: setAll never fails, and the state it leaves is the state after
\* set(k, v) for each pair of the source in the source's iteration order: the
\* last pair of the source is present (and last) afterwards, and when the pairs
\* of the source have distinct keys and distinct values that are not in the
\* container, all old and all new pairs are present.
SetAllAsSets ==
    Called("setAll") =>
        LET src == SourcePairs(last.pre, last.prebs, LastSource)
            n == Len(src)
            this == bimaps[last.c]
            distinct == \A i, j \in 1..n :
                            i # j => (src[i][1] # src[j][1] /\ src[i][2] # src[j][2])
            free == \A i \in 1..n : /\ ~hasKey(last.pre, PreThis, src[i][1])
                                    /\ ~hasValue(last.pre, PreThis, src[i][2])
        IN  /\ last.err = "none"
            /\ maps = SetEach(last.pre, PreThis, src, n)
            /\ n > 0 =>
                  /\ getValue(maps, this, src[n][1]) = src[n][2]
                  /\ getKey(maps, this, src[n][2]) = src[n][1]
                  /\ Fwd(last.c)[Len(Fwd(last.c))] = src[n]
            /\ (distinct /\ free) =>
                  /\ PairSet(Fwd(last.c)) = PairSet(PreFwd) \cup PairSet(src)
                  /\ Fwd(last.c) = PreFwd \o src
                  /\ size(maps, this) = size(last.pre, PreThis) + n

\* a setAll of three pairs has evicted pairs of a container that held two
SetAllWitness ==
    /\ Called("setAll") /\ last.kind = "array" /\ Len(last.pairs) = 3
    /\ Len(PreFwd) = 2
    /\ \E i \in 1..2 : PreFwd[i] \notin PairSet(Fwd(last.c))
    /\ last.err = "none"

\* C12 as stated: setAll and addAll on a container source, the receiver
\* included, visit each pair the source held at the call once, no pair twice,
\* and return when they have visited them all unless add has thrown.
ForEachOncePerPair ==
    /\ \A p \in Procs : frames[p].pc = "forEach" => frames[p].visits <= frames[p].n
    /\ (last.op \in {"setAll", "addAll"} /\ last.kind = "bimap" /\ last.err = "none") =>
          last.num = size(last.pre, last.prebs[last.d])

\* C13: the size after set(k, v) is the size before plus 1 when neither k nor
\* v was present, the same when one pair was evicted (k present, or v present,
\* or the pair (k, v) itself stored), and one less only when k and v were
\* present in two different pairs; never anything else.
SetSizeDelta ==
    Called("set") =>
        LET before == size(last.pre, PreThis)
            after == size(maps, bimaps[last.c])
            hadKey == hasKey(last.pre, PreThis, last.key)
            hadValue == hasValue(last.pre, PreThis, last.value)
            same == hadKey /\ getValue(last.pre, PreThis, last.key) = last.value
            evicted == Cardinality({p \in PairSet(PreFwd) :
                                       p[1] = last.key \/ p[2] = last.value})
        IN  /\ after - before \in {-1, 0, 1}
            /\ after = before - evicted + 1
            /\ (after = before + 1) <=> (~hadKey /\ ~hadValue)
            /\ (after = before) <=> ((hadKey /\ ~hadValue) \/ (~hadKey /\ hadValue) \/ same)
            /\ (after = before) <=> (evicted = 1)
            /\ (after = before - 1) <=> (hadKey /\ hadValue /\ ~same)

\* a set on a key and a value of two different pairs has taken three pairs to two
SetSizeWitness ==
    /\ Called("set")
    /\ size(last.pre, PreThis) = 3 /\ size(maps, bimaps[last.c]) = 2
    /\ getValue(last.pre, PreThis, last.key) \notin {last.value, Undefined}
    /\ hasValue(last.pre, PreThis, last.value)

\* the elements of an array
Elements(list) == {list[i] : i \in 1..Len(list)}

\* C14: deleteKeys(ks) returns the number of pairs it has removed: the size
\* before minus the size after, which is the number of distinct elements of ks
\* that were keys; a missing or repeated element adds nothing, and the pairs
\* whose key is not in ks are kept, in place.  deleteValues(vs) likewise, by
\* value.
DeleteCount ==
    /\ Called("deleteKeys") =>
          LET ks == Elements(last.list)
              hit == {k \in ks : hasKey(last.pre, PreThis, k)}
          IN  /\ last.err = "none"
              /\ last.num = Cardinality(hit)
              /\ last.num = size(last.pre, PreThis) - size(maps, bimaps[last.c])
              /\ Fwd(last.c) = SelectSeq(PreFwd, LAMBDA p : p[1] \notin ks)
              /\ Inv(last.c) = SelectSeq(PreInv, LAMBDA p : p[2] \notin ks)
    /\ Called("deleteValues") =>
          LET vs == Elements(last.list)
              hit == {v \in vs : hasValue(last.pre, PreThis, v)}
          IN  /\ last.err = "none"
              /\ last.num = Cardinality(hit)
              /\ last.num = size(last.pre, PreThis) - size(maps, bimaps[last.c])
              /\ Fwd(last.c) = SelectSeq(PreFwd, LAMBDA p : p[2] \notin vs)
              /\ Inv(last.c) = SelectSeq(PreInv, LAMBDA p : p[1] \notin vs)

\* deleteKeys was handed the same key twice and has removed its pair, of three
DeleteCountWitness ==
    /\ Called("deleteKeys") /\ Len(last.list) = 2 /\ last.list[1] = last.list[2]
    /\ last.num = 1
    /\ Len(PreFwd) = 3 /\ Len(Fwd(last.c)) = 2

\* the calls that read only
Queries == {"size", "hasKey", "hasValue", "getKey", "getValue",
            "assertHasKey", "assertHasValue"}

\* C15: assertHasKey(k) fails, with NoSuchKey, exactly when hasKey(k) is
\* false, and assertHasValue(v) fails, with NoSuchValue, exactly when
\* hasValue(v) is false; failing or not, they and hasKey, hasValue, getKey,
\* getValue and size leave both tables as they were.
AssertQueries ==
    /\ Called("assertHasKey") =>
          /\ (last.err = "NoSuchKey") <=> ~hasKey(last.pre, PreThis, last.key)
          /\ (last.err = "none") <=> hasKey(last.pre, PreThis, last.key)
    /\ Called("assertHasValue") =>
          /\ (last.err = "NoSuchValue") <=> ~hasValue(last.pre, PreThis, last.value)
          /\ (last.err = "none") <=> hasValue(last.pre, PreThis, last.value)
    /\ last.op \in Queries =>
          /\ Fwd(last.c) = PreFwd
          /\ Inv(last.c) = PreInv
          /\ maps = last.pre /\ bimaps = last.prebs
          /\ last.op \notin {"assertHasKey", "assertHasValue"} => last.err = "none"

\* assertHasKey has failed on a container that holds other keys
AssertWitness ==
    /\ Called("assertHasKey") /\ last.err = "NoSuchKey"
    /\ Len(Fwd(last.c)) = 2

\* C16: getValue(k) returns the value paired with k when hasKey(k) holds and
\* undefined, never an error, when it does not; getKey(v) returns the key
\* paired with v when hasValue(v) holds and undefined, never an error, when it
\* does not.
LookupTotal ==
    /\ Called("getValue") =>
          /\ last.err = "none"
          /\ hasKey(last.pre, PreThis, last.key) =>
                /\ last.value \in Values
                /\ <<last.key, last.value>> \in PairSet(PreFwd)
                /\ <<last.value, last.key>> \in PairSet(PreInv)
          /\ ~hasKey(last.pre, PreThis, last.key) => last.value = Undefined
    /\ Called("getKey") =>
          /\ last.err = "none"
          /\ hasValue(last.pre, PreThis, last.value) =>
                /\ last.key \in Keys
                /\ <<last.key, last.value>> \in PairSet(PreFwd)
                /\ <<last.value, last.key>> \in PairSet(PreInv)
          /\ ~hasValue(last.pre, PreThis, last.value) => last.key = Undefined
    /\ \A c \in BiMapIds : Exists(c) =>
          /\ \A k \in Keys :
                IF hasKey(maps, bimaps[c], k)
                THEN <<k, getValue(maps, bimaps[c], k)>> \in PairSet(Fwd(c))
                ELSE getValue(maps, bimaps[c], k) = Undefined
          /\ \A v \in Values :
                IF hasValue(maps, bimaps[c], v)
                THEN <<getKey(maps, bimaps[c], v), v>> \in PairSet(Fwd(c))
                ELSE getKey(maps, bimaps[c], v) = Undefined

\* on a container of one pair, getKey of a value that is not there returned
\* undefined
LookupWitness ==
    /\ Called("getKey") /\ last.key = Undefined
    /\ Len(PreFwd) = 1 /\ PreFwd[1][2] # last.value

\* C17: after clear() the container is as a new one: both tables are empty,
\* size is 0, hasKey and hasValue are false and the lookups undefined for every
\* key and value, and add(k, v) succeeds for every k and v.
ClearResets ==
    Called("clear") =>
        LET this == bimaps[last.c] IN
        /\ last.err = "none"
        /\ size(maps, this) = 0
        /\ Fwd(last.c) = <<>> /\ Inv(last.c) = <<>>
        /\ keys(maps, this) = <<>> /\ values(maps, this) = <<>>
        /\ \A k \in Keys : ~hasKey(maps, this, k) /\ getValue(maps, this, k) = Undefined
        /\ \A v \in Values : ~hasValue(maps, this, v) /\ getKey(maps, this, v) = Undefined
        /\ \A k \in Keys, v \in Values :
              LET r == add(maps, this, k, v)
              IN  /\ r.err = "none"
                  /\ r.h[this.key2value] = <<<<k, v>>>>
                  /\ r.h[this.value2key] = <<<<v, k>>>>

\* clear was called on a container of three pairs
ClearWitness ==
    /\ Called("clear") /\ Len(PreFwd) = 3 /\ Len(PreInv) = 3
    /\ size(maps, bimaps[last.c]) = 0

\* the two tables of container c are inverses of each other
Inverses(c) ==
    /\ PairSet(Inv(c)) = Flipped(PairSet(Fwd(c)))
    /\ Cardinality(PairSet(Fwd(c))) = Len(Fwd(c))
    /\ Len(Inv(c)) = Len(Fwd(c))
    /\ \A i, j \in 1..Len(Fwd(c)) : Fwd(c)[i][2] = Fwd(c)[j][2] => i = j

\* no call has run while another was in progress
Unmixed == \A p \in Procs : ~frames[p].mixed

\* C18: with each table write a step of its own, set(k, v) and add(k, v) pass
\* through a state in which the forward table maps k to v and the inverse
\* table does not map v to k, and deleteKey and deleteValue through a state
\* in which one table has lost the entry and the other has not: the tables are
\* inverses between calls that run one after the other, not inside a call.
TwoTableUpdate ==
    /\ (Unmixed /\ \A p \in Procs : ~Running(p)) => Inverses(1)
    /\ \A p \in Procs :
          LET f == frames[p]
              this == bimaps[f.c]
          IN  Unmixed =>
              /\ f.pc \in {"set.inverse", "add.inverse"} =>
                    /\ getValue(maps, this, f.key) = f.value
                    /\ getKey(maps, this, f.value) # f.key
                    /\ ~hasValue(maps, this, f.value)
                    /\ ~Inverses(1)
              /\ f.pc = "deleteKey.forward" =>
                    /\ hasKey(maps, this, f.key)
                    /\ ~hasValue(maps, this, getValue(maps, this, f.key))
                    /\ ~Inverses(1)
              /\ f.pc = "deleteValue.inverse" =>
                    /\ hasValue(maps, this, f.value)
                    /\ ~hasKey(maps, this, getKey(maps, this, f.value))
                    /\ ~Inverses(1)

\* two calls that ran interleaved have both returned and left tables that are
\* not inverses
TwoTableWitness ==
    /\ \A p \in Procs : ~Running(p)
    /\ ~Unmixed
    /\ ~Inverses(1)

\* the tables of container c are the same in heaps h and g
SameTables(h, g, c) ==
    /\ h[bimaps[c].key2value] = g[bimaps[c].key2value]
    /\ h[bimaps[c].value2key] = g[bimaps[c].value2key]

\* C19: from(b) on a container b never fails and yields a container with the
\* pairs of b in the iteration order of b, as b.clone() does, in tables of its
\* own: a mutation of the result leaves b as it was, and a mutation of b the
\* result.
FromAsClone ==
    /\ (Called("from") /\ last.kind = "bimap") =>
          LET c == last.c
              d == last.d
              cl == clone(last.pre, last.prebs[d])
          IN  /\ last.err = "none"
              /\ Fwd(c) = cl.h[cl.ret.key2value]
              /\ Inv(c) = cl.h[cl.ret.value2key]
              /\ Fwd(c) = last.pre[last.prebs[d].key2value]
              /\ Inv(c) = last.pre[last.prebs[d].value2key]
              /\ c # d =>
                    /\ Fwd(d) = Fwd(c) /\ Inv(d) = Inv(c)
                    /\ bimaps[d] = last.prebs[d]
                    /\ {bimaps[d].key2value, bimaps[d].value2key}
                          \cap {bimaps[c].key2value, bimaps[c].value2key} = {}
                    /\ \A k \in Keys, v \in Values :
                          /\ SameTables(set(maps, bimaps[c], k, v).h, maps, d)
                          /\ SameTables(set(maps, bimaps[d], k, v).h, maps, c)
                          /\ SameTables(deleteKey(maps, bimaps[c], k).h, maps, d)
                          /\ SameTables(deleteKey(maps, bimaps[d], k).h, maps, c)
                          /\ SameTables(clear(maps, bimaps[c]).h, maps, d)
                          /\ SameTables(clear(maps, bimaps[d]).h, maps, c)
    /\ last.op \in Mutators =>
          \A d \in BiMapIds \ {last.c} : Exists(d) => SameTables(maps, last.pre, d)

\* from has made a second container out of one that holds three pairs
FromCloneWitness ==
    /\ Called("from") /\ last.kind = "bimap" /\ last.c # last.d
    /\ Len(Fwd(last.c)) = 3 /\ Len(Fwd(last.d)) = 3

\* C20: set(k, v) puts the pair (k, v) last in keys(), values() and entries(),
\* also when k was a key or the pair (k, v) was stored before (the old pair is
\* deleted and inserted anew); the other surviving pairs keep their relative
\* order; a second set(k, v) right after leaves the pairs and their order as
\* the first left them.
SetPlacesLast ==
    Called("set") =>
        LET this == bimaps[last.c]
            k == last.key
            v == last.value
            ks == keys(maps, this)
            vs == values(maps, this)
            es == entries(maps, this)
            n == Len(es)
            twice == set(maps, this, k, v).h
        IN  /\ n >= 1 /\ Len(ks) = n /\ Len(vs) = n
            /\ ks[n] = k /\ vs[n] = v /\ es[n] = <<k, v>>
            /\ SubSeq(es, 1, n - 1) =
                  SelectSeq(entries(last.pre, PreThis), LAMBDA p : p[1] # k /\ p[2] # v)
            /\ SubSeq(ks, 1, n - 1) =
                  SelectSeq(keys(last.pre, PreThis),
                            LAMBDA x : x # k /\ getValue(last.pre, PreThis, x) # v)
            /\ SubSeq(vs, 1, n - 1) =
                  SelectSeq(values(last.pre, PreThis),
                            LAMBDA y : y # v /\ getKey(last.pre, PreThis, y) # k)
            /\ twice[this.key2value] = Fwd(last.c)
            /\ twice[this.value2key] = Inv(last.c)
            /\ twice = maps

\* set was called with the pair that stood first of three, and it stands last
SetLastWitness ==
    /\ Called("set") /\ Len(PreFwd) = 3
    /\ PreFwd[1] = <<last.key, last.value>>
    /\ Fwd(last.c) = <<PreFwd[2], PreFwd[3], PreFwd[1]>>
    /\ Inv(last.c)[3] = <<last.value, last.key>>

====
